---- MODULE Spec2Model ----
(***************************************************************************)
(* Model of ForcePy's force categories (ForceCategories.py) and analyses   *)
(* (Analysis.py).                                                          *)
(*                                                                         *)
(* Python objects are records whose fields are the attributes that have    *)
(* been assigned so far (an attribute that was never set is a missing      *)
(* field).  Objects live in per-class heaps (sequences); a reference is    *)
(* the index into the heap.  A Python value that may be None is encoded    *)
(* as a tuple: <<>> is None and <<v>> is the value v.  Python lists and    *)
(* numpy arrays are sequences; Python index k is TLA+ index k + 1.         *)
(***************************************************************************)
EXTENDS Integers, Sequences, FiniteSets, TLC

\* ------------------------------------------------------------------ bounds
MaxAtoms == 3
MaxCutoff == 2
MaxPairwiseObjects == 2
MaxPeriod == 2
MaxUpdates == 3
MaxWrites == 2

\* --------------------------------------------------------- Python helpers
None == <<>>
Some(v) == <<v>>
Val(x) == x[1]

Return(v) == [kind |-> "return", value |-> v]
Raise(e) == [kind |-> "raise", error |-> e]

SetAttr(o, k, v) == [a \in (DOMAIN o) \cup {k} |-> IF a = k THEN v ELSE o[a]]
DelAttr(o, k) == [a \in (DOMAIN o) \ {k} |-> o[a]]
HasAttr(o, k) == k \in DOMAIN o

Cutoffs == 1..MaxCutoff
OptCutoffs == {None} \cup {Some(c) : c \in Cutoffs}

VARIABLES
    u,                  \* the universe handed to every setup and update
    Pairwise_instance,  \* class attribute Pairwise.instance: None or <<id>>
    pairwise,           \* heap of Pairwise objects
    Bond_instance,      \* class attribute Bond.instance: None or <<id>>
    bond,               \* heap of Bond objects
    analysis,           \* the analysis object under study: None or <<object>>
    files,              \* content of every output destination, by path
    history,            \* history: counts of the calls made on the analysis
    ret,                \* the last call: operation, arguments, outcome
    firstCutoff,        \* history: the first non-None cutoff requested of Pairwise
    glob                \* the Global object under study: None or <<object>>

categoryVars == <<Pairwise_instance, pairwise, Bond_instance, bond>>
analysisVars == <<analysis, files, history>>
vars == <<u, categoryVars, analysisVars, ret, firstCutoff, glob>>

\* ------------------------------------------------------------- categories
ForceCategory_init == [nlist_ready |-> FALSE]

Pairwise_init(cutoff) ==
    [nlist_ready |-> ForceCategory_init.nlist_ready,
     cutoff |-> cutoff,
     nlist_obj |-> None]

Bond_init == ForceCategory_init

\* The cutoff test of get_instance: the request is refused.
IncompatibleCutoffMutant(established, requested) == requested - established < 0
IncompatibleCutoff(established, requested) == established - requested < 0

\* get_instance that builds a fresh object on every request with a cutoff.
Pairwise_get_instance_Mutant(args, inst, heap) ==
    IF Len(args) = 0 \/ args[1] = None
    THEN [instance |-> inst, heap |-> heap, result |-> Return(inst)]
    ELSE [instance |-> Some(Len(heap) + 1),
          heap |-> Append(heap, Pairwise_init(Val(args[1]))),
          result |-> Return(Some(Len(heap) + 1))]

\* Pairwise.get_instance(*args) on class state (inst, heap): the new class
\* state and the outcome of the call.
Pairwise_get_instance(args, inst, heap) ==
    IF Len(args) = 0 \/ args[1] = None
    THEN [instance |-> inst, heap |-> heap, result |-> Return(inst)]
    ELSE IF inst = None
    THEN [instance |-> Some(Len(heap) + 1),
          heap |-> Append(heap, Pairwise_init(Val(args[1]))),
          result |-> Return(Some(Len(heap) + 1))]
    ELSE IF IncompatibleCutoff(heap[Val(inst)].cutoff, Val(args[1]))
    THEN [instance |-> inst, heap |-> heap, result |-> Raise("RuntimeError")]
    ELSE [instance |-> inst, heap |-> heap, result |-> Return(inst)]

Bond_get_instance(args, inst, heap) ==
    IF inst = None
    THEN [instance |-> Some(Len(heap) + 1),
          heap |-> Append(heap, Bond_init),
          result |-> Return(Some(Len(heap) + 1))]
    ELSE [instance |-> inst, heap |-> heap, result |-> Return(inst)]

\* --------------------------------------------------------------- universe
\* The trajectory collaborator u: atoms 0..n-1 on the x axis at integer
\* coordinates, a cubic box, a bond list and one type name per atom.
Atoms(un) == 0..(un.n - 1)

AllPairs(n) == {p \in (0..(n - 1)) \X (0..(n - 1)) : p[1] < p[2]}

PairLess(p, q) == p[1] < q[1] \/ (p[1] = q[1] /\ p[2] < q[2])

RECURSIVE SortedPairs(_)
SortedPairs(S) ==
    IF S = {} THEN <<>>
    ELSE LET m == CHOOSE p \in S : \A q \in S \ {p} : PairLess(p, q)
         IN <<m>> \o SortedPairs(S \ {m})

Reverse(s) == [k \in 1..Len(s) |-> s[Len(s) + 1 - k]]
Swap(s) == [k \in 1..Len(s) |-> <<s[k][2], s[k][1]>>]

\* Every list of distinct bonds in ascending order, and the same bonds in
\* descending order with their ends exchanged.
BondLists(n) ==
    {SortedPairs(S) : S \in SUBSET AllPairs(n)}
        \cup {Swap(Reverse(SortedPairs(S))) : S \in SUBSET AllPairs(n)}

TypeOf(i) == IF i % 2 = 0 THEN "A" ELSE "B"

\* The positions of a frame: the atoms one unit apart on the x axis, or
\* the same with atom 1 moved onto atom 0 (overlapping particles).
Layouts == {"line", "pair"}
Positions(n, layout) ==
    [k \in 1..n |-> IF layout = "line" \/ k = 1 THEN <<k - 1, 0, 0>>
                    ELSE <<k - 2, 0, 0>>]

MakeUniverse(n, periodic, bonds) ==
    [n |-> n,
     positions |-> Positions(n, "line"),
     dimensions |-> <<n, n, n>>,
     periodic |-> periodic,
     bonds |-> bonds,
     types |-> [k \in 1..n |-> TypeOf(k - 1)]]

Universes ==
    UNION {{MakeUniverse(n, p, b) : p \in BOOLEAN, b \in BondLists(n)} :
           n \in 0..MaxAtoms}

\* --------------------------------------------------------------- geometry
\* ForcePy.Util.min_img_vec(a, b, dims, periodic): a - b, each component
\* moved into the nearest periodic image.
min_img_component(d, len, periodic) ==
    IF ~periodic THEN d
    ELSE IF 2 * d > len THEN d - len
    ELSE IF 2 * d < -len THEN d + len
    ELSE d

min_img_vec(a, b, dims, periodic) ==
    [k \in 1..3 |-> min_img_component(a[k] - b[k], dims[k], periodic)]

\* ForcePy.Util.norm3(v): the Euclidean norm (the model's vectors lie on
\* an axis, so that the norm is an integer).
norm3(v) ==
    LET s == v[1] * v[1] + v[2] * v[2] + v[3] * v[3]
    IN CHOOSE r \in 0..s : r * r = s

\* ------------------------------------------------ neighbor list builders
\* ForcePy.NeighborList.NeighborList(u, cutoff).build_nlist(u): for every
\* particle the other particles within the cutoff, both directions stored.
NeighborsWithin(un, cutoff, i) ==
    SelectSeq([k \in 1..un.n |-> k - 1],
              LAMBDA j : j # i /\ norm3(min_img_vec(un.positions[j + 1],
                                                    un.positions[i + 1],
                                                    un.dimensions,
                                                    un.periodic)) <= cutoff)

RECURSIVE Flatten(_)
Flatten(lists) ==
    IF lists = <<>> THEN <<>> ELSE Head(lists) \o Flatten(Tail(lists))

NeighborList_build_nlist(un, cutoff) ==
    LET per == [k \in 1..un.n |-> NeighborsWithin(un, cutoff, k - 1)]
    IN [nlist |-> Flatten(per),
        nlist_lengths |-> [k \in 1..un.n |-> Len(per[k])]]

\* Pairwise._build_nlist(self, u)
Pairwise_build_nlist(self, un) ==
    LET obj == IF self.nlist_obj = None THEN Some([cutoff |-> self.cutoff])
               ELSE self.nlist_obj
        built == NeighborList_build_nlist(un, Val(obj).cutoff)
    IN [self |-> SetAttr(SetAttr(SetAttr(SetAttr(self,
                    "nlist_obj", obj),
                    "nlist", built.nlist),
                    "nlist_lengths", built.nlist_lengths),
                    "nlist_ready", TRUE),
        result |-> Return(None)]

\* The first loop with each bond stored at its first end only.
RECURSIVE Bond_temp_Mutant(_, _)
Bond_temp_Mutant(bonds, temp) ==
    IF bonds = <<>> THEN temp
    ELSE LET b == Head(bonds)
         IN Bond_temp_Mutant(Tail(bonds),
                             [temp EXCEPT ![b[1] + 1] = Append(@, b[2])])

\* The first loop of Bond._build_nlist: temp[i] collects the partners of
\* atom i, each bond appended to both of its ends.
RECURSIVE Bond_temp(_, _)
Bond_temp(bonds, temp) ==
    IF bonds = <<>> THEN temp
    ELSE LET b == Head(bonds)
             t1 == [temp EXCEPT ![b[1] + 1] = Append(@, b[2])]
             t2 == [t1 EXCEPT ![b[2] + 1] = Append(@, b[1])]
         IN Bond_temp(Tail(bonds), t2)

\* Size of the flattened array allocated by Bond._build_nlist:
\* (n - 1) * (n / 2), with Python 2 integer division.
Bond_capacity(n) == (n - 1) * (n \div 2)

\* The second loop of Bond._build_nlist, from atom i, entry k of temp[i].
\* st holds the arrays, the write position and whether an assignment
\* fell outside the array (IndexError), which ends the loop.
RECURSIVE Bond_unwrap(_, _, _, _)
Bond_unwrap(temp, i, k, st) ==
    IF i >= Len(temp) \/ st.error THEN st
    ELSE LET s1 == IF k = 1
                   THEN [st EXCEPT !.nlist_lengths[i + 1] = Len(temp[i + 1])]
                   ELSE st
         IN IF k > Len(temp[i + 1]) THEN Bond_unwrap(temp, i + 1, 1, s1)
            ELSE IF s1.nlist_accum >= Len(s1.nlist)
            THEN [s1 EXCEPT !.error = TRUE]
            ELSE Bond_unwrap(temp, i, k + 1,
                     [s1 EXCEPT !.nlist[s1.nlist_accum + 1] = temp[i + 1][k],
                                !.nlist_accum = @ + 1])

\* Bond._build_nlist(self, u); g is the content np.empty leaves in the
\* cells of the two fresh arrays.
Bond_build_nlist(self, un, g) ==
    LET n == un.n
        temp == Bond_temp(un.bonds, [k \in 1..n |-> <<>>])
        cap == Bond_capacity(n)
        st0 == [nlist |-> [k \in 1..cap |-> g],
                nlist_lengths |-> [k \in 1..n |-> g],
                nlist_accum |-> 0,
                error |-> FALSE]
        st == Bond_unwrap(temp, 0, 1, st0)
        filled == SetAttr(SetAttr(self, "nlist", st.nlist),
                          "nlist_lengths", st.nlist_lengths)
    IN IF st.error
       THEN [self |-> filled, result |-> Raise("IndexError")]
       ELSE [self |-> SetAttr(SetAttr(filled,
                         "nlist", SubSeq(st.nlist, 1, st.nlist_accum)),
                         "nlist_ready", TRUE),
             result |-> Return(None)]

\* Pairwise._setup(self, u) and Bond._setup(self, u)
Pairwise_setup(self, un) ==
    IF ~self.nlist_ready THEN Pairwise_build_nlist(self, un)
    ELSE [self |-> self, result |-> Return(None)]

Bond_setup(self, un, g) ==
    IF ~self.nlist_ready THEN Bond_build_nlist(self, un, g)
    ELSE [self |-> self, result |-> Return(None)]

\* Pairwise._teardown(self) and Bond._teardown(self)
Pairwise_teardown(self) == [self EXCEPT !.nlist_ready = FALSE]
Bond_teardown(self) == [self EXCEPT !.nlist_ready = FALSE]

\* Sum of the first i entries of a sequence: np.sum(lengths[:i]).
RECURSIVE SumTo(_, _)
SumTo(s, i) == IF i <= 0 THEN 0 ELSE s[i] + SumTo(s, i - 1)

\* generate_nlist without its assertion: an unready category yields
\* nothing, or whatever slice an earlier build left behind.
generate_nlist_Mutant(self, i) ==
    IF ~HasAttr(self, "nlist") \/ ~HasAttr(self, "nlist_lengths")
       \/ Len(self.nlist_lengths) <= i
    THEN Return(<<>>)
    ELSE LET nlist_accum == IF i > 0 THEN SumTo(self.nlist_lengths, i) ELSE 0
             last == nlist_accum + self.nlist_lengths[i + 1]
         IN Return(SubSeq(self.nlist, nlist_accum + 1,
                          IF last > Len(self.nlist) THEN Len(self.nlist) ELSE last))

\* ForceCategory.generate_nlist(self, i), consumed to its end: the
\* neighbors yielded, or the assertion that stops it before the first.
generate_nlist(self, i) ==
    IF ~self.nlist_ready THEN Raise("AssertionError")
    ELSE LET nlist_accum == IF i > 0 THEN SumTo(self.nlist_lengths, i) ELSE 0
         IN Return(SubSeq(self.nlist, nlist_accum + 1,
                          nlist_accum + self.nlist_lengths[i + 1]))

\* r / d for a vector r on an axis and its norm d.
Unit(r, d) == [k \in 1..3 |-> r[k] \div d]

\* generate_neighbor_vecs that yields a triple for a masked neighbor too.
generate_neighbor_vecs_Mutant(self, i, un, mask) ==
    LET nl == generate_nlist(self, i)
        vec(j) == min_img_vec(un.positions[j + 1], un.positions[i + 1],
                              un.dimensions, un.periodic)
        triple(j) == LET r == vec(j)
                         d == norm3(r)
                     IN <<IF d = 0 THEN r ELSE Unit(r, d), d, j>>
    IN IF nl.kind = "raise" THEN nl
       ELSE Return([k \in 1..Len(nl.value) |-> triple(nl.value[k])])

\* ForceCategory.generate_neighbor_vecs(self, i, u, mask), consumed to its
\* end: the triples (r, d, j) yielded.  mask is None or Some(list).
generate_neighbor_vecs(self, i, un, mask) ==
    LET nl == generate_nlist(self, i)
        use == mask # None /\ Val(mask) # <<>>
        vec(j) == min_img_vec(un.positions[j + 1], un.positions[i + 1],
                              un.dimensions, un.periodic)
        triple(j) == LET r == vec(j)
                         d == norm3(r)
                     IN <<IF d = 0 THEN r ELSE Unit(r, d), d, j>>
    IN IF nl.kind = "raise" THEN nl
       ELSE LET kept == SelectSeq(nl.value,
                                  LAMBDA j : ~(use /\ ~Val(mask)[j + 1]))
            IN Return([k \in 1..Len(kept) |-> triple(kept[k])])


\* ------------------------------------------------------------ pair_exists
\* Pairwise.pair_exists(self, u, type1, type2)
Pairwise_pair_exists(self, un, type1, type2) == TRUE

\* u.atoms.selectAtoms(type): the numbers of the atoms of that type.
SelectAtoms(un, type) == {i \in Atoms(un) : un.types[i + 1] = type}

\* The loop of Bond.pair_exists over a built structure: some atom of
\* selection type1 has an atom of selection type2 in its slice.
Bond_pair_search(self, un, type1, type2) ==
    \E i \in SelectAtoms(un, type1) :
        LET nlist_accum == IF i > 0 THEN SumTo(self.nlist_lengths, i) ELSE 0
        IN \E k \in (nlist_accum + 1)..(nlist_accum + self.nlist_lengths[i + 1]) :
               self.nlist[k] \in SelectAtoms(un, type2)

\* Bond.pair_exists(self, u, type1, type2); g is what np.empty leaves in
\* the arrays of a build.
Bond_pair_exists(self, un, type1, type2, g) ==
    LET b == IF ~self.nlist_ready THEN Bond_build_nlist(self, un, g)
             ELSE [self |-> self, result |-> Return(None)]
    IN IF b.result.kind = "raise" THEN b
       ELSE [self |-> b.self,
             result |-> Return(Bond_pair_search(b.self, un, type1, type2))]

\* ----------------------------------------------------------------- Global
\* ForceCategory._setup(self, u) and ForceCategory._teardown(self): pass.
ForceCategory_setup(self, un) == self
ForceCategory_teardown(self) == self

\* Global.__init__ that leaves the flag as ForceCategory.__init__ set it.
Global_init_Mutant(vector) ==
    SetAttr(ForceCategory_init, "_vector", vector)

\* Global.__init__(self, vector)
Global_init(vector) ==
    [SetAttr(ForceCategory_init, "_vector", vector) EXCEPT !.nlist_ready = TRUE]

\* Global.get_instance(self, *args)
Global_get_instance(self, args) == self

\* np.cross(a, b) and np.inner(a, b) of two 3-vectors.
cross(a, b) ==
    <<a[2] * b[3] - a[3] * b[2], a[3] * b[1] - a[1] * b[3],
      a[1] * b[2] - a[2] * b[1]>>
inner(a, b) == a[1] * b[1] + a[2] * b[2] + a[3] * b[3]

\* Global.generate_neighbor_vecs(self, i, u, mask), consumed to its end.
Global_generate_neighbor_vecs(self, i, un, mask) ==
    Return(<< <<cross(self._vector, un.positions[i + 1]),
                inner(self._vector, un.positions[i + 1]), -1>> >>)

\* Global.pair_exists(self, u, type1, type2)
Global_pair_exists(self, un, type1, type2) == FALSE

\* ------------------------------------------------------ output formatting
\* Text is a sequence of one-character strings.
FieldWidth == 10
StrPrecision == 12

DigitChar(d) == <<"0", "1", "2", "3", "4", "5", "6", "7", "8", "9">>[d + 1]

RECURSIVE IntDigits(_)
IntDigits(n) == IF n < 10 THEN <<n>> ELSE Append(IntDigits(n \div 10), n % 10)

\* The first k digits after the decimal point of rem / den (rem < den)
\* and the remainder left after them.
RECURSIVE FracDigits(_, _, _)
FracDigits(rem, den, k) ==
    IF k = 0 THEN [digits |-> <<>>, rem |-> rem]
    ELSE LET rest == FracDigits((rem * 10) % den, den, k - 1)
         IN [digits |-> <<(rem * 10) \div den>> \o rest.digits, rem |-> rest.rem]

\* Zeros between the decimal point and the first non-zero digit.
RECURSIVE LeadingZeros(_, _)
LeadingZeros(rem, den) ==
    IF rem = 0 \/ rem * 10 >= den THEN 0
    ELSE 1 + LeadingZeros(rem * 10, den)

\* A digit string plus one in its last place.
RECURSIVE Increment(_)
Increment(ds) ==
    IF ds = <<>> THEN <<1>>
    ELSE IF ds[Len(ds)] < 9 THEN [ds EXCEPT ![Len(ds)] = @ + 1]
    ELSE Append(Increment(SubSeq(ds, 1, Len(ds) - 1)), 0)

RECURSIVE StripZeros(_)
StripZeros(ds) ==
    IF ds # <<>> /\ ds[Len(ds)] = 0 THEN StripZeros(SubSeq(ds, 1, Len(ds) - 1))
    ELSE ds

\* str.format of the float num / den (num >= 0, den > 0) with no type
\* code: StrPrecision significant digits, trailing zeros removed, at least
\* one digit after the point.  Values of the model lie in [1e-4, 1e12),
\* where Python uses fixed-point notation.
FormatFloat(num, den) ==
    LET ip == num \div den
        r0 == num % den
        nfrac == IF ip > 0 THEN StrPrecision - Len(IntDigits(ip))
                 ELSE IF r0 = 0 THEN 1
                 ELSE LeadingZeros(r0, den) + StrPrecision
        fd == FracDigits(r0, den, nfrac)
        all == IntDigits(ip) \o fd.digits
        rounded == IF 2 * fd.rem >= den THEN Increment(all) ELSE all
        nint == Len(rounded) - nfrac
        frac == StripZeros(SubSeq(rounded, nint + 1, Len(rounded)))
        shown == IF frac = <<>> THEN <<0>> ELSE frac
    IN [k \in 1..nint |-> DigitChar(rounded[k])] \o <<".">>
           \o [k \in 1..Len(shown) |-> DigitChar(shown[k])]

FormatInt(n) == [k \in 1..Len(IntDigits(n)) |-> DigitChar(IntDigits(n)[k])]

\* '{:10}': a number is right-aligned in a field of at least 10 characters.
Pad(text) ==
    IF Len(text) >= FieldWidth THEN text
    ELSE [k \in 1..(FieldWidth - Len(text)) |-> " "] \o text

\* A number as the analyses hold it: a Python int, a float num / den, or
\* the float nan.
PyInt(n) == [type |-> "int", num |-> n, den |-> 1]
PyFloat(num, den) == [type |-> "float", num |-> num, den |-> den]
PyNaN == [type |-> "nan", num |-> 0, den |-> 1]

Format(x) ==
    Pad(IF x.type = "int" THEN FormatInt(x.num)
        ELSE IF x.type = "nan" THEN <<"n", "a", "n">>
        ELSE FormatFloat(x.num, x.den))

\* ------------------------------------------------------------------ files
\* A file object: its path, its position, and whether it was closed.
\* open(path, 'w') truncates the file.
Paths == {"out"}
OpenW(path) == [type |-> "file", name |-> path, pos |-> 0, closed |-> FALSE]
PathOf(path) == [type |-> "str", name |-> path]

\* file.write(text) at the position of f: the bytes under the text are
\* replaced, the bytes after it stay.
WriteAt(content, pos, text) ==
    SubSeq(content, 1, pos) \o text
        \o SubSeq(content, pos + Len(text) + 1, Len(content))

Lines(content) == Len(SelectSeq(content, LAMBDA c : c = "\n"))

\* --------------------------------------------------------------- analyses
\* The class state get_instance works on.
ClassState(pi, ph, bi, bh, gl) ==
    [Pairwise_instance |-> pi, pairwise |-> ph, Bond_instance |-> bi, bond |-> bh,
     glob |-> gl]

\* category.get_instance(cutoff) for the class named category ("Global"
\* stands for the Global object of the state); the result is None or a
\* reference [cls, id] to the object.
Category_get_instance(category, cutoff, st) ==
    IF category = "Pairwise"
    THEN LET r == Pairwise_get_instance(<<cutoff>>, st.Pairwise_instance, st.pairwise)
         IN [st |-> [st EXCEPT !.Pairwise_instance = r.instance, !.pairwise = r.heap],
             result |-> IF r.result.kind = "raise" \/ r.result.value = None
                        THEN r.result
                        ELSE Return(Some([cls |-> "Pairwise",
                                          id |-> Val(r.result.value)]))]
    ELSE IF category = "Bond"
    THEN LET r == Bond_get_instance(<<cutoff>>, st.Bond_instance, st.bond)
         IN [st |-> [st EXCEPT !.Bond_instance = r.instance, !.bond = r.heap],
             result |-> Return(Some([cls |-> "Bond", id |-> Val(r.result.value)]))]
    ELSE [st |-> [st EXCEPT !.glob = Some(Global_get_instance(Val(@), <<cutoff>>))],
          result |-> Return(Some([cls |-> "Global", id |-> 1]))]

\* The object a category reference points to.
Deref(st, ref) ==
    IF Val(ref).cls = "Pairwise" THEN st.pairwise[Val(ref).id]
    ELSE IF Val(ref).cls = "Bond" THEN st.bond[Val(ref).id]
    ELSE Val(st.glob)

\* Analysis.__init__(self, category, period, outfile, cutoff)
Analysis_init(cls, category, period, outfile, cutoff, st) ==
    LET r == Category_get_instance(category, cutoff, st)
    IN IF r.result.kind = "raise" THEN [st |-> r.st, result |-> r.result]
       ELSE [st |-> r.st,
             result |-> Return(None),
             self |-> [cls |-> cls,
                       category |-> r.result.value,
                       period |-> period,
                       outfile |-> outfile,
                       update_counts |-> 0,
                       sel1 |-> None, sel2 |-> None,
                       mask1 |-> None, mask2 |-> None]]

\* len(np.arange(start, stop, step)); np.arange(start, None, step) is
\* np.arange(0, start, step).
ArangeLen(start, stop, step) ==
    LET lo == IF stop = None THEN 0 ELSE start
        hi == IF stop = None THEN start ELSE Val(stop)
    IN IF hi <= lo THEN 0 ELSE (hi - lo + step - 1) \div step

\* RDF.__init__ that falls back on the cutoff it was passed when the
\* category has none.
RDF_init_Mutant(category, period, outfile, binsize, cutoff, st) ==
    LET a == Analysis_init("RDF", category, period, outfile, cutoff, st)
    IN IF a.result.kind = "raise" THEN a
       ELSE LET s1 == SetAttr(SetAttr(a.self,
                          "hist", [k \in 1..ArangeLen(0, cutoff, binsize) |-> 0]),
                          "binsize", binsize)
            IN IF s1.category = None \/ ~HasAttr(Deref(a.st, s1.category), "cutoff")
               THEN IF cutoff = None
                    THEN [st |-> a.st, result |-> Raise("ValueError")]
                    ELSE [st |-> a.st, result |-> Return(None),
                          self |-> SetAttr(s1, "cutoff", Val(cutoff))]
               ELSE [st |-> a.st, result |-> Return(None),
                     self |-> SetAttr(s1, "cutoff", Deref(a.st, s1.category).cutoff)]

\* RDF.__init__(self, category, period, outfile, binsize, cutoff)
RDF_init(category, period, outfile, binsize, cutoff, st) ==
    LET a == Analysis_init("RDF", category, period, outfile, cutoff, st)
    IN IF a.result.kind = "raise" THEN a
       ELSE LET s1 == SetAttr(SetAttr(a.self,
                          "hist", [k \in 1..ArangeLen(0, cutoff, binsize) |-> 0]),
                          "binsize", binsize)
            IN IF s1.category = None \/ ~HasAttr(Deref(a.st, s1.category), "cutoff")
               THEN [st |-> a.st, result |-> Raise("ValueError")]
               ELSE [st |-> a.st, result |-> Return(None),
                     self |-> SetAttr(s1, "cutoff", Deref(a.st, s1.category).cutoff)]

\* CoordNumber.__init__(self, category, period, outfile, r0, cutoff)
CoordNumber_init(category, period, outfile, r0, cutoff, st) ==
    LET a == Analysis_init("CoordNumber", category, period, outfile, cutoff, st)
    IN IF a.result.kind = "raise" THEN a
       ELSE [st |-> a.st, result |-> Return(None),
             self |-> SetAttr(SetAttr(a.self, "cutoff", cutoff), "r0", r0)]

\* u.selectAtoms('type %s' % sel) as a mask over the atoms.
SelectMask(un, sel) == [k \in 1..un.n |-> un.types[k] = Val(sel)]

\* _build_mask that builds a mask again whenever a selection is given.
Analysis_build_mask_Mutant(self, sel1, sel2, un) ==
    LET m1 == IF sel1 # None THEN Some(SelectMask(un, sel1))
              ELSE IF self.mask1 = None THEN Some([k \in 1..un.n |-> TRUE])
              ELSE self.mask1
        m2 == IF sel2 # None THEN Some(SelectMask(un, sel2))
              ELSE IF self.mask2 = None THEN m1
              ELSE self.mask2
    IN [self EXCEPT !.mask1 = m1, !.mask2 = m2]

\* Analysis._build_mask(self, sel1, sel2, u)
Analysis_build_mask(self, sel1, sel2, un) ==
    LET m1 == IF self.mask1 = None /\ sel1 # None THEN Some(SelectMask(un, sel1))
              ELSE IF self.mask1 = None THEN Some([k \in 1..un.n |-> TRUE])
              ELSE self.mask1
        m2 == IF self.mask2 = None /\ sel2 # None THEN Some(SelectMask(un, sel2))
              ELSE IF self.mask2 = None THEN m1
              ELSE self.mask2
    IN [self EXCEPT !.mask1 = m1, !.mask2 = m2]

\* Analysis.setup_hook(self, u)
Analysis_setup_hook(self, un) ==
    IF HasAttr(self, "sel1") /\ HasAttr(self, "sel2")
       /\ HasAttr(self, "mask1") /\ HasAttr(self, "mask2")
    THEN Analysis_build_mask(self, self.sel1, self.sel2, un)
    ELSE self

\* Analysis.specialize_types(self, selection_pair_1, selection_pair_2)
Analysis_specialize_types(self, selection_pair_1, selection_pair_2) ==
    SetAttr([self EXCEPT !.sel1 = selection_pair_1, !.sel2 = selection_pair_2],
            "type_name", <<"types", selection_pair_1, selection_pair_2>>)

\* Analysis.specialize_states(self, mask1, mask2, name1, name2)
Analysis_specialize_states(self, mask1, mask2, name1, name2) ==
    SetAttr([self EXCEPT !.mask1 = mask1, !.mask2 = mask2],
            "type_name", <<"states", name1, name2>>)

\* The characters of the type names and selection patterns of the model.
Chars(name) ==
    CASE name = "A" -> <<"A">>
      [] name = "B" -> <<"B">>
      [] name = "AB" -> <<"A", "B">>

\* re.match(pattern, string) is not None, for a pattern without special
\* characters: the string starts with the pattern.
re_match(pattern, string) ==
    /\ Len(Chars(pattern)) <= Len(Chars(string))
    /\ SubSeq(Chars(string), 1, Len(Chars(pattern))) = Chars(pattern)

\* A Python string, and an atom object with its type attribute.
PyStr(value) == [cls |-> "str", value |-> value]
AtomOf(type) == [cls |-> "Atom", type |-> type]

\* Analysis.valid_pair(self, atom1, atom2); an atom is a type name or an
\* object with a type attribute.  re.match raises TypeError when its
\* pattern is None, and AttributeError is the only exception caught.
Analysis_valid_pair(self, atom1, atom2) ==
    LET t1 == IF atom1.cls = "str" THEN atom1.value ELSE atom1.type
        t2 == IF atom2.cls = "str" THEN atom2.value ELSE atom2.type
    IN IF ~HasAttr(self, "sel1") THEN Return(TRUE)
       ELSE IF self.sel1 = None THEN Raise("TypeError")
       ELSE IF re_match(Val(self.sel1), t1)
       THEN IF ~HasAttr(self, "sel2") THEN Return(TRUE)
            ELSE IF self.sel2 = None THEN Raise("TypeError")
            ELSE IF re_match(Val(self.sel2), t2) THEN Return(TRUE)
            ELSE IF re_match(Val(self.sel2), t1) THEN Return(re_match(Val(self.sel1), t2))
            ELSE Return(FALSE)
       ELSE IF ~HasAttr(self, "sel2") THEN Return(TRUE)
       ELSE IF self.sel2 = None THEN Raise("TypeError")
       ELSE IF re_match(Val(self.sel2), t1) THEN Return(re_match(Val(self.sel1), t2))
       ELSE Return(FALSE)

\* The body of the neighbor loop of RDF.do_update for particle i: the
\* histogram after the triples of i.
RECURSIVE RDF_count(_, _, _, _)
RDF_count(hist, binsize, i, triples) ==
    IF triples = <<>> THEN hist
    ELSE LET d == Head(triples)[2]
             j == Head(triples)[3]
             b == d \div binsize
         IN RDF_count(IF i < j /\ b < Len(hist)
                      THEN [hist EXCEPT ![b + 1] = @ + 1] ELSE hist,
                      binsize, i, Tail(triples))

\* The mask the loops of do_update pass for particle i: "skip" when i is
\* in neither group, a TypeError when the masks were never built.
MaskFor(self, i) ==
    IF self.mask1 = None THEN Raise("TypeError")
    ELSE IF Val(self.mask1)[i + 1] THEN Return(self.mask2)
    ELSE IF self.mask2 = None THEN Raise("TypeError")
    ELSE IF Val(self.mask2)[i + 1] THEN Return(self.mask1)
    ELSE [kind |-> "skip"]

\* self.category.generate_neighbor_vecs(i, u, maskj), consumed to its end.
NeighborVecs(self, st, i, un, maskj) ==
    IF self.category = None THEN Raise("AttributeError")
    ELSE generate_neighbor_vecs(Deref(st, self.category), i, un, maskj)

\* RDF.do_update(self, u) from particle i on.
RECURSIVE RDF_do_update_from(_, _, _, _)
RDF_do_update_from(self, st, un, i) ==
    IF i >= un.n THEN [self |-> self, result |-> Return(None)]
    ELSE LET m == MaskFor(self, i)
         IN IF m.kind = "raise" THEN [self |-> self, result |-> m]
            ELSE IF m.kind = "skip" THEN RDF_do_update_from(self, st, un, i + 1)
            ELSE LET v == NeighborVecs(self, st, i, un, m.value)
                 IN IF v.kind = "raise" THEN [self |-> self, result |-> v]
                    ELSE RDF_do_update_from(
                             [self EXCEPT !.hist =
                                  RDF_count(self.hist, self.binsize, i, v.value)],
                             st, un, i + 1)

RDF_do_update(self, st, un) == RDF_do_update_from(self, st, un, 0)

\* Greatest common divisor, to keep a float num / den in lowest terms.
RECURSIVE Gcd(_, _)
Gcd(a, b) == IF b = 0 THEN a ELSE Gcd(b, a % b)

Fraction(num, den) ==
    LET g == Gcd(num, den) IN PyFloat(num \div g, den \div g)

\* The neighbor loop of CoordNumber.do_update for particle i: how many
\* triples have i < j and d < r0.
CoordNumber_count(r0, i, triples) ==
    Len(SelectSeq(triples, LAMBDA t : i < t[3] /\ t[2] < r0))

\* The particle loop of CoordNumber.do_update from particle i on; cn and
\* count are the loop's running values.
RECURSIVE CoordNumber_loop(_, _, _, _, _, _)
CoordNumber_loop(self, st, un, i, cn, count) ==
    IF i >= un.n THEN [cn |-> cn, count |-> count, result |-> Return(None)]
    ELSE LET m == MaskFor(self, i)
         IN IF m.kind = "raise" THEN [cn |-> cn, count |-> count, result |-> m]
            ELSE IF m.kind = "skip"
            THEN CoordNumber_loop(self, st, un, i + 1, cn, count)
            ELSE LET v == NeighborVecs(self, st, i, un, m.value)
                 IN IF v.kind = "raise"
                    THEN [cn |-> cn, count |-> count + 1, result |-> v]
                    ELSE CoordNumber_loop(self, st, un, i + 1,
                             cn + CoordNumber_count(self.r0, i, v.value),
                             count + 1)

\* CoordNumber.do_update without the final doubling.
CoordNumber_do_update_Mutant(self, st, un) ==
    LET l == CoordNumber_loop(self, st, un, 0, 0, 0)
    IN IF l.result.kind = "raise"
       THEN [self |-> SetAttr(self, "cn", PyInt(l.cn)), result |-> l.result]
       ELSE IF l.count = 0
       THEN [self |-> SetAttr(self, "cn", PyInt(l.cn)),
             result |-> Raise("ZeroDivisionError")]
       ELSE [self |-> SetAttr(self, "cn", Fraction(l.cn, l.count)),
             result |-> Return(None)]

\* CoordNumber.do_update(self, u)
CoordNumber_do_update(self, st, un) ==
    LET l == CoordNumber_loop(self, st, un, 0, 0, 0)
    IN IF l.result.kind = "raise"
       THEN [self |-> SetAttr(self, "cn", PyInt(l.cn)), result |-> l.result]
       ELSE IF l.count = 0
       THEN [self |-> SetAttr(self, "cn", PyInt(l.cn)),
             result |-> Raise("ZeroDivisionError")]
       ELSE [self |-> SetAttr(self, "cn", Fraction(2 * l.cn, l.count)),
             result |-> Return(None)]

do_update(self, st, un) ==
    IF self.cls = "RDF" THEN RDF_do_update(self, st, un)
    ELSE CoordNumber_do_update(self, st, un)

\* update that counts the frame before it samples it.
Analysis_update_Mutant(self, st, un) ==
    LET counted == [self EXCEPT !.update_counts = @ + 1]
    IN IF counted.update_counts % counted.period = 0
       THEN LET r == do_update(counted, st, un)
            IN [self |-> r.self, result |-> r.result, ran |-> TRUE]
       ELSE [self |-> counted, result |-> Return(None), ran |-> FALSE]

\* Analysis.update(self, u); ran tells whether do_update was called.
Analysis_update(self, st, un) ==
    IF self.update_counts % self.period = 0
    THEN LET r == do_update(self, st, un)
         IN IF r.result.kind = "raise"
            THEN [self |-> r.self, result |-> r.result, ran |-> TRUE]
            ELSE [self |-> [r.self EXCEPT !.update_counts = @ + 1],
                  result |-> Return(None), ran |-> TRUE]
    ELSE [self |-> [self EXCEPT !.update_counts = @ + 1],
          result |-> Return(None), ran |-> FALSE]

\* The first lines of both write methods: a path is opened for writing
\* (and the file truncated), a file object is kept.
OpenOutfile(self, fs) ==
    IF self.outfile.type # "file"
    THEN [self |-> [self EXCEPT !.outfile = OpenW(self.outfile.name)],
          fs |-> [fs EXCEPT ![self.outfile.name] = <<>>]]
    ELSE [self |-> self, fs |-> fs]

\* One row of the table RDF.write prints: bin b of nbins, with count h of
\* N pairs.  r is the bin's centre; gr is 3h / (density 4 pi (rr^3 - rl^3))
\* with density N / (4/3 pi cutoff^3), that is h cutoff^3 / (N (rr^3 - rl^3)),
\* and nan (0 / 0.0 on numpy floats) when N is 0.
RDF_row(self, b, N) ==
    LET rl == b * self.binsize
        rr == self.binsize + b * self.binsize
        h == self.hist[b + 1]
        c == self.cutoff
        gr == IF N = 0 THEN PyNaN
              ELSE Fraction(h * c * c * c, N * (rr * rr * rr - rl * rl * rl))
    IN Format(Fraction(rl + rr, 2)) \o <<" ">> \o Format(gr) \o <<"\n">>

RECURSIVE RDF_rows(_, _, _, _)
RDF_rows(self, b, nrows, N) ==
    IF b >= nrows THEN <<>>
    ELSE RDF_row(self, b, N) \o RDF_rows(self, b + 1, nrows, N)

Min(a, b) == IF a < b THEN a ELSE b

\* RDF.write whose division by a zero density raises, as a division of
\* Python floats would.
RDF_write_Mutant(self, fs) ==
    IF ~HasAttr(self, "outfile")
    THEN [self |-> self, fs |-> fs, result |-> Raise("AttributeError")]
    ELSE LET o == OpenOutfile(self, fs)
             f == [o.self.outfile EXCEPT !.pos = 0]
             N == SumTo(self.hist, Len(self.hist))
             nrows == Min(Min(ArangeLen(0, Some(self.cutoff), self.binsize),
                              ArangeLen(self.binsize,
                                        Some(self.cutoff + self.binsize),
                                        self.binsize)),
                          Len(self.hist))
             text == RDF_rows(self, 0, nrows, N)
         IN IF N = 0 /\ nrows > 0
            THEN [self |-> [o.self EXCEPT !.outfile = f], fs |-> o.fs,
                  result |-> Raise("ZeroDivisionError")]
            ELSE [self |-> [o.self EXCEPT !.outfile = [f EXCEPT !.pos = Len(text)]],
                  fs |-> [o.fs EXCEPT ![f.name] = WriteAt(@, 0, text)],
                  result |-> Return(None)]

\* RDF.write(self) on the file system fs.
RDF_write(self, fs) ==
    IF ~HasAttr(self, "outfile")
    THEN [self |-> self, fs |-> fs, result |-> Raise("AttributeError")]
    ELSE LET o == OpenOutfile(self, fs)
             f == [o.self.outfile EXCEPT !.pos = 0]
             N == SumTo(self.hist, Len(self.hist))
             nrows == Min(Min(ArangeLen(0, Some(self.cutoff), self.binsize),
                              ArangeLen(self.binsize,
                                        Some(self.cutoff + self.binsize),
                                        self.binsize)),
                          Len(self.hist))
             text == RDF_rows(self, 0, nrows, N)
         IN [self |-> [o.self EXCEPT !.outfile = [f EXCEPT !.pos = Len(text)]],
             fs |-> [o.fs EXCEPT ![f.name] = WriteAt(@, 0, text)],
             result |-> Return(None)]

\* CoordNumber.write that seeks to the start before writing.
CoordNumber_write_Mutant(self, fs) ==
    LET o == OpenOutfile(self, fs)
        f == o.self.outfile
    IN IF ~HasAttr(self, "cn")
       THEN [self |-> o.self, fs |-> o.fs, result |-> Raise("AttributeError")]
       ELSE LET text == Format(self.cn) \o <<"\n">>
            IN [self |-> [o.self EXCEPT !.outfile.pos = Len(text)],
                fs |-> [o.fs EXCEPT ![f.name] = WriteAt(@, 0, text)],
                result |-> Return(None)]

\* CoordNumber.write(self) on the file system fs.
CoordNumber_write(self, fs) ==
    LET o == OpenOutfile(self, fs)
        f == o.self.outfile
    IN IF ~HasAttr(self, "cn")
       THEN [self |-> o.self, fs |-> o.fs, result |-> Raise("AttributeError")]
       ELSE LET text == Format(self.cn) \o <<"\n">>
            IN [self |-> [o.self EXCEPT !.outfile.pos = f.pos + Len(text)],
                fs |-> [o.fs EXCEPT ![f.name] = WriteAt(@, f.pos, text)],
                result |-> Return(None)]

\* RDF.__getstate__(self): the dictionary returned, and self afterwards.
RDF_getstate(self) ==
    IF ~HasAttr(self, "outfile")
    THEN [self |-> self, result |-> Raise("AttributeError")]
    ELSE [self |-> IF self.outfile.type = "file"
                   THEN [self EXCEPT !.outfile = PathOf(self.outfile.name)]
                   ELSE self,
          result |-> Return(DelAttr(self, "outfile"))]

\* ------------------------------------------------------------------ state
NoHistory == [updateCalls |-> 0, updatesReturned |-> 0, writesReturned |-> 0,
              writeClean |-> FALSE]

\* What np.empty may leave in a cell that is never assigned.
EmptyCells == {0, MaxAtoms}

Init ==
    /\ u \in Universes
    /\ Pairwise_instance = None
    /\ pairwise = <<>>
    /\ Bond_instance = None
    /\ bond = <<>>
    /\ analysis = None
    /\ files = [p \in Paths |-> <<>>]
    /\ history = NoHistory
    /\ ret = [op |-> "none"]
    /\ firstCutoff = None
    /\ glob = None

\* ---------------------------------------------------------------- actions
PairwiseArgs == {<<>>} \cup {<<c>> : c \in OptCutoffs}

CallPairwiseGetInstance ==
    \E args \in PairwiseArgs :
        LET r == Pairwise_get_instance(args, Pairwise_instance, pairwise) IN
        /\ Len(r.heap) <= MaxPairwiseObjects
        /\ Pairwise_instance' = r.instance
        /\ pairwise' = r.heap
        /\ ret' = [op |-> "Pairwise.get_instance", args |-> args,
                   before |-> Pairwise_instance, result |-> r.result]
        /\ firstCutoff' = IF firstCutoff = None /\ Len(args) > 0 /\ args[1] # None
                          THEN args[1] ELSE firstCutoff
        /\ UNCHANGED <<glob, analysisVars, u, Bond_instance, bond>>

CallBondGetInstance ==
    LET r == Bond_get_instance(<<>>, Bond_instance, bond) IN
    /\ Bond_instance' = r.instance
    /\ bond' = r.heap
    /\ ret' = [op |-> "Bond.get_instance", result |-> r.result]
    /\ UNCHANGED <<glob, analysisVars, u, Pairwise_instance, pairwise, firstCutoff>>

CallPairwiseSetup ==
    \E id \in 1..Len(pairwise) :
        LET r == Pairwise_setup(pairwise[id], u) IN
        /\ pairwise' = [pairwise EXCEPT ![id] = r.self]
        /\ ret' = [op |-> "setup", cls |-> "Pairwise", id |-> id,
                   before |-> pairwise[id], result |-> r.result]
        /\ UNCHANGED <<glob, analysisVars, u, Pairwise_instance, Bond_instance, bond, firstCutoff>>

CallBondSetup ==
    \E id \in 1..Len(bond), g \in EmptyCells :
        LET r == Bond_setup(bond[id], u, g) IN
        /\ bond' = [bond EXCEPT ![id] = r.self]
        /\ ret' = [op |-> "setup", cls |-> "Bond", id |-> id,
                   before |-> bond[id], result |-> r.result]
        /\ UNCHANGED <<glob, analysisVars, u, Pairwise_instance, pairwise, Bond_instance, firstCutoff>>

CallPairwiseTeardown ==
    \E id \in 1..Len(pairwise) :
        /\ pairwise' = [pairwise EXCEPT ![id] = Pairwise_teardown(@)]
        /\ ret' = [op |-> "teardown", cls |-> "Pairwise", id |-> id,
                   before |-> pairwise[id], result |-> Return(None)]
        /\ UNCHANGED <<glob, analysisVars, u, Pairwise_instance, Bond_instance, bond, firstCutoff>>

CallBondTeardown ==
    \E id \in 1..Len(bond) :
        /\ bond' = [bond EXCEPT ![id] = Bond_teardown(@)]
        /\ ret' = [op |-> "teardown", cls |-> "Bond", id |-> id,
                   before |-> bond[id], result |-> Return(None)]
        /\ UNCHANGED <<glob, analysisVars, u, Pairwise_instance, pairwise, Bond_instance, firstCutoff>>

CallGenerateNlist ==
    \/ \E id \in 1..Len(pairwise), i \in Atoms(u) :
           /\ ret' = [op |-> "generate_nlist", cls |-> "Pairwise", id |-> id,
                      i |-> i, before |-> pairwise[id],
                      result |-> generate_nlist(pairwise[id], i)]
           /\ UNCHANGED <<glob, analysisVars, u, Pairwise_instance, pairwise, Bond_instance, bond,
                          firstCutoff>>
    \/ \E id \in 1..Len(bond), i \in Atoms(u) :
           /\ ret' = [op |-> "generate_nlist", cls |-> "Bond", id |-> id,
                      i |-> i, before |-> bond[id],
                      result |-> generate_nlist(bond[id], i)]
           /\ UNCHANGED <<glob, analysisVars, u, Pairwise_instance, pairwise, Bond_instance, bond,
                          firstCutoff>>

Masks(un) == {None, Some([k \in 1..un.n |-> TypeOf(k - 1) = "A"])}

CallGenerateNeighborVecs ==
    \/ \E id \in 1..Len(pairwise), i \in Atoms(u), mask \in Masks(u) :
           /\ ret' = [op |-> "generate_neighbor_vecs", cls |-> "Pairwise",
                      id |-> id, i |-> i, mask |-> mask, before |-> pairwise[id],
                      result |-> generate_neighbor_vecs(pairwise[id], i, u, mask)]
           /\ UNCHANGED <<glob, analysisVars, u, Pairwise_instance, pairwise, Bond_instance, bond,
                          firstCutoff>>
    \/ \E id \in 1..Len(bond), i \in Atoms(u), mask \in Masks(u) :
           /\ ret' = [op |-> "generate_neighbor_vecs", cls |-> "Bond",
                      id |-> id, i |-> i, mask |-> mask, before |-> bond[id],
                      result |-> generate_neighbor_vecs(bond[id], i, u, mask)]
           /\ UNCHANGED <<glob, analysisVars, u, Pairwise_instance, pairwise, Bond_instance, bond,
                          firstCutoff>>

Next ==
    \/ CallPairwiseGetInstance
    \/ CallBondGetInstance
    \/ CallPairwiseSetup
    \/ CallBondSetup
    \/ CallPairwiseTeardown
    \/ CallBondTeardown
    \/ CallGenerateNlist
    \/ CallGenerateNeighborVecs

Spec == Init /\ [][Next]_vars

\* ------------------------------------------------- actions on an analysis
Periods == 1..MaxPeriod
BinSizes == {1}
Categories == {"Pairwise", "Bond"}
OutPath == CHOOSE p \in Paths : TRUE

\* What an earlier run may have left in the output destination.
OldContent == <<"o", "l", "d", "\n">>

\* The universes the analyses run on: no atoms at all, or MaxAtoms atoms
\* of which the first two are bonded.
AnalysisUniverses ==
    {MakeUniverse(0, FALSE, <<>>), MakeUniverse(MaxAtoms, FALSE, <<<<0, 1>>>>)}

InitAnalysis ==
    /\ u \in AnalysisUniverses
    /\ Pairwise_instance = None
    /\ pairwise = <<>>
    /\ Bond_instance = None
    /\ bond = <<>>
    /\ analysis = None
    /\ files \in [Paths -> {<<>>, OldContent}]
    /\ history = NoHistory
    /\ ret = [op |-> "none"]
    /\ firstCutoff = None
    /\ glob = None

Classes == ClassState(Pairwise_instance, pairwise, Bond_instance, bond, glob)

SetClasses(st) ==
    /\ Pairwise_instance' = st.Pairwise_instance
    /\ pairwise' = st.pairwise
    /\ Bond_instance' = st.Bond_instance
    /\ bond' = st.bond

Constructed(r, cutoff) ==
    /\ SetClasses(r.st)
    /\ analysis' = IF r.result.kind = "raise" THEN None ELSE Some(r.self)
    /\ ret' = [op |-> "__init__", result |-> r.result]
    /\ firstCutoff' = IF firstCutoff = None THEN cutoff ELSE firstCutoff
    /\ UNCHANGED <<glob, u, files, history>>

NewRDF ==
    /\ analysis = None
    /\ \E category \in Categories, period \in Periods, binsize \in BinSizes,
          cutoff \in OptCutoffs :
           /\ category = "Bond" => cutoff = None
           /\ Constructed(RDF_init(category, period, PathOf(OutPath), binsize,
                                   cutoff, Classes),
                          IF category = "Pairwise" THEN cutoff ELSE None)

NewCoordNumber ==
    /\ analysis = None
    /\ \E category \in Categories, period \in Periods, r0 \in {MaxCutoff},
          cutoff \in OptCutoffs :
           /\ category = "Bond" => cutoff = None
           /\ Constructed(CoordNumber_init(category, period, PathOf(OutPath), r0,
                                           cutoff, Classes),
                          IF category = "Pairwise" THEN cutoff ELSE None)

CallSetupHook ==
    /\ analysis # None
    /\ analysis' = Some(Analysis_setup_hook(Val(analysis), u))
    /\ ret' = [op |-> "setup_hook", mask1 |-> Val(analysis).mask1,
               mask2 |-> Val(analysis).mask2, result |-> Return(None)]
    /\ UNCHANGED <<glob, u, categoryVars, files, history, firstCutoff>>

\* Analysis.get_category(self)
Analysis_get_category(self) == self.category

\* The driver sets up the category of the analysis:
\* analysis.get_category()._setup(u).
CallCategorySetup ==
    /\ analysis # None
    /\ Analysis_get_category(Val(analysis)) # None
    /\ LET ref == Val(Analysis_get_category(Val(analysis))) IN
       \E g \in EmptyCells :
           LET r == IF ref.cls = "Pairwise" THEN Pairwise_setup(pairwise[ref.id], u)
                    ELSE Bond_setup(bond[ref.id], u, g)
           IN
           /\ pairwise' = IF ref.cls = "Pairwise"
                          THEN [pairwise EXCEPT ![ref.id] = r.self] ELSE pairwise
           /\ bond' = IF ref.cls = "Bond"
                      THEN [bond EXCEPT ![ref.id] = r.self] ELSE bond
           /\ ret' = [op |-> "setup", cls |-> ref.cls, id |-> ref.id,
                      before |-> Deref(Classes, Some(ref)), result |-> r.result]
    /\ UNCHANGED <<glob, analysisVars, u, Pairwise_instance, Bond_instance, firstCutoff>>

\* The trajectory moves on to its next frame.
NextFrame ==
    \E layout \in Layouts :
        /\ u.positions # Positions(u.n, layout)
        /\ u' = [u EXCEPT !.positions = Positions(u.n, layout)]
        /\ ret' = [op |-> "frame"]
        /\ UNCHANGED <<glob, categoryVars, analysisVars, firstCutoff>>

CallUpdate ==
    /\ analysis # None
    /\ history.updateCalls < MaxUpdates
    /\ LET r == Analysis_update(Val(analysis), Classes, u) IN
       /\ analysis' = Some(r.self)
       /\ history' = [history EXCEPT
              !.updateCalls = @ + 1,
              !.updatesReturned = IF r.result.kind = "return" THEN @ + 1 ELSE @,
              !.writeClean = IF r.ran THEN FALSE ELSE @]
       /\ ret' = [op |-> "update", k |-> history.updateCalls,
                  counts |-> Val(analysis).update_counts,
                  hist |-> IF HasAttr(Val(analysis), "hist")
                           THEN Val(analysis).hist ELSE <<>>,
                  ran |-> r.ran, result |-> r.result]
    /\ UNCHANGED <<glob, u, categoryVars, files, firstCutoff>>

CallWrite ==
    /\ analysis # None
    /\ history.writesReturned < MaxWrites
    /\ LET self == Val(analysis)
           r == IF self.cls = "RDF" THEN RDF_write(self, files)
                ELSE CoordNumber_write(self, files)
       IN
       /\ analysis' = Some(r.self)
       /\ files' = r.fs
       /\ history' = [history EXCEPT
              !.writesReturned = IF r.result.kind = "return" /\ self.cls # "RDF"
                                 THEN @ + 1 ELSE @,
              !.writeClean = TRUE]
       /\ ret' = [op |-> "write", content |-> files[OutPath],
                  clean |-> history.writeClean,
                  opened |-> (self.outfile.type # "file"),
                  kept |-> (DelAttr(r.self, "outfile") = DelAttr(self, "outfile")),
                  result |-> r.result]
    /\ UNCHANGED <<glob, u, categoryVars, firstCutoff>>

CallGetstate ==
    /\ analysis # None
    /\ Val(analysis).cls = "RDF"
    /\ LET r == RDF_getstate(Val(analysis)) IN
       /\ analysis' = Some(r.self)
       /\ ret' = [op |-> "__getstate__", result |-> r.result]
    /\ UNCHANGED <<glob, u, categoryVars, files, history, firstCutoff>>

\* An analysis rebuilt from the snapshot __getstate__ has just returned
\* (its attributes are the snapshot's entries) is asked to write.
CallRestoredWrite ==
    /\ ret.op = "__getstate__" /\ ret.result.kind = "return"
    /\ LET r == RDF_write(ret.result.value, files) IN
       /\ files' = r.fs
       /\ ret' = [op |-> "restored.write", content |-> files[OutPath],
                  restored |-> r.self, result |-> r.result]
    /\ UNCHANGED <<glob, u, categoryVars, analysis, history, firstCutoff>>

NextAnalysis ==
    \/ NewRDF
    \/ NewCoordNumber
    \/ CallSetupHook
    \/ CallCategorySetup
    \/ NextFrame
    \/ CallUpdate
    \/ CallWrite
    \/ CallGetstate
    \/ CallRestoredWrite

SpecAnalysis == InitAnalysis /\ [][NextAnalysis]_vars

\* --------------------------------- actions on an analysis with two groups
\* The driver specializes an analysis and asks it about pairs of types
\* while it configures the run, before the first frame is sampled.
Configuring == analysis # None /\ history.updateCalls = 0

\* The selections and the state masks the driver specializes with, and the
\* type names valid_pair is asked about.
SelectionPairs ==
    {<<None, None>>, <<Some("A"), None>>, <<Some("A"), Some("B")>>}
TypeNames == {"A", "B", "AB"}
StateMaskPairs(un) ==
    {<<Some([k \in 1..un.n |-> k < un.n]), Some([k \in 1..un.n |-> k = 1])>>,
     <<Some([k \in 1..un.n |-> k = 1]), Some([k \in 1..un.n |-> k = un.n])>>}

InitGroups ==
    /\ u = MakeUniverse(MaxAtoms, FALSE, <<>>)
    /\ Pairwise_instance = None
    /\ pairwise = <<>>
    /\ Bond_instance = None
    /\ bond = <<>>
    /\ analysis = None
    /\ files = [p \in Paths |-> <<>>]
    /\ history = NoHistory
    /\ ret = [op |-> "none"]
    /\ firstCutoff = None
    /\ glob = None

\* An RDF or a CoordNumber over the Pairwise category, sampling every frame.
NewGroupAnalysis ==
    /\ analysis = None
    /\ \E cls \in {"RDF", "CoordNumber"} :
           Constructed(IF cls = "RDF"
                       THEN RDF_init("Pairwise", 1, PathOf(OutPath), 1,
                                     Some(MaxCutoff), Classes)
                       ELSE CoordNumber_init("Pairwise", 1, PathOf(OutPath),
                                             MaxCutoff, Some(MaxCutoff), Classes),
                       Some(MaxCutoff))

CallSpecializeTypes ==
    /\ Configuring
    /\ \E sel \in SelectionPairs :
           /\ analysis' = Some(Analysis_specialize_types(Val(analysis),
                                                         sel[1], sel[2]))
           /\ ret' = [op |-> "specialize_types", result |-> Return(None)]
    /\ UNCHANGED <<glob, u, categoryVars, files, history, firstCutoff>>

CallSpecializeStates ==
    /\ Configuring
    /\ \E m \in StateMaskPairs(u) :
           /\ analysis' = Some(Analysis_specialize_states(Val(analysis),
                                                          m[1], m[2], None, None))
           /\ ret' = [op |-> "specialize_states", result |-> Return(None)]
    /\ UNCHANGED <<glob, u, categoryVars, files, history, firstCutoff>>

CallValidPair ==
    /\ Configuring
    /\ \E t1 \in TypeNames, t2 \in TypeNames, asAtom \in BOOLEAN :
           LET atom1 == IF asAtom THEN AtomOf(t1) ELSE PyStr(t1)
               atom2 == PyStr(t2)
           IN ret' = [op |-> "valid_pair", atom1 |-> atom1, atom2 |-> atom2,
                      result |-> Analysis_valid_pair(Val(analysis), atom1, atom2),
                      swapped |-> Analysis_valid_pair(Val(analysis), atom2, atom1)]
    /\ UNCHANGED <<glob, u, categoryVars, analysisVars, firstCutoff>>

NextGroups ==
    \/ NewGroupAnalysis
    \/ CallSpecializeTypes
    \/ CallSpecializeStates
    \/ CallSetupHook
    \/ CallCategorySetup
    \/ NextFrame
    \/ CallUpdate
    \/ CallValidPair

SpecGroups == InitGroups /\ [][NextGroups]_vars

\* ------------------------------------------------ actions on a Global
\* The field vectors a Global category is built with.
Vectors == {<<0, 0, 1>>, <<1, 0, 0>>, <<1, 1, 0>>}

InitGlobal ==
    /\ u \in {MakeUniverse(n, FALSE, <<>>) : n \in 0..MaxAtoms}
    /\ Pairwise_instance = None
    /\ pairwise = <<>>
    /\ Bond_instance = None
    /\ bond = <<>>
    /\ analysis = None
    /\ files = [p \in Paths |-> <<>>]
    /\ history = NoHistory
    /\ ret = [op |-> "none"]
    /\ firstCutoff = None
    /\ glob = None

GlobalUnchanged == UNCHANGED <<u, categoryVars, analysisVars, firstCutoff>>

NewGlobal ==
    /\ glob = None
    /\ \E vector \in Vectors :
           /\ glob' = Some(Global_init(vector))
           /\ ret' = [op |-> "Global", result |-> Return(None)]
    /\ GlobalUnchanged

CallGlobalGetInstance ==
    /\ glob # None
    /\ \E args \in PairwiseArgs :
           ret' = [op |-> "Global.get_instance",
                   result |-> Return(Global_get_instance(Val(glob), args))]
    /\ UNCHANGED glob
    /\ GlobalUnchanged

CallGlobalSetup ==
    /\ glob # None
    /\ glob' = Some(ForceCategory_setup(Val(glob), u))
    /\ ret' = [op |-> "Global._setup", result |-> Return(None)]
    /\ GlobalUnchanged

CallGlobalTeardown ==
    /\ glob # None
    /\ glob' = Some(ForceCategory_teardown(Val(glob)))
    /\ ret' = [op |-> "Global._teardown", result |-> Return(None)]
    /\ GlobalUnchanged

CallGlobalNeighborVecs ==
    /\ glob # None
    /\ \E i \in Atoms(u), mask \in Masks(u) :
           ret' = [op |-> "Global.generate_neighbor_vecs", i |-> i,
                   result |-> Global_generate_neighbor_vecs(Val(glob), i, u, mask)]
    /\ UNCHANGED glob
    /\ GlobalUnchanged

CallGlobalPairExists ==
    /\ glob # None
    /\ \E type1 \in TypeNames, type2 \in TypeNames :
           ret' = [op |-> "Global.pair_exists", type1 |-> type1, type2 |-> type2,
                   result |-> Return(Global_pair_exists(Val(glob), u, type1, type2))]
    /\ UNCHANGED glob
    /\ GlobalUnchanged

NextGlobal ==
    \/ NewGlobal
    \/ CallGlobalGetInstance
    \/ CallGlobalSetup
    \/ CallGlobalTeardown
    \/ CallGlobalNeighborVecs
    \/ CallGlobalPairExists
    \/ NextFrame

SpecGlobal == InitGlobal /\ [][NextGlobal]_vars

\* ------------------------------------------------- actions of pair_exists
CallPairwisePairExists ==
    /\ \E id \in 1..Len(pairwise), type1 \in TypeNames, type2 \in TypeNames :
           ret' = [op |-> "Pairwise.pair_exists", id |-> id,
                   type1 |-> type1, type2 |-> type2,
                   result |-> Return(Pairwise_pair_exists(pairwise[id], u,
                                                          type1, type2))]
    /\ UNCHANGED <<glob, analysisVars, u, categoryVars, firstCutoff>>

CallBondPairExists ==
    /\ \E id \in 1..Len(bond), type1 \in TypeNames, type2 \in TypeNames,
          g \in EmptyCells :
           LET r == Bond_pair_exists(bond[id], u, type1, type2, g) IN
           /\ bond' = [bond EXCEPT ![id] = r.self]
           /\ ret' = [op |-> "Bond.pair_exists", id |-> id,
                      type1 |-> type1, type2 |-> type2,
                      ready |-> bond[id].nlist_ready, result |-> r.result]
    /\ UNCHANGED <<glob, analysisVars, u, Pairwise_instance, pairwise,
                   Bond_instance, firstCutoff>>

NextPairExists ==
    \/ CallPairwiseGetInstance
    \/ CallBondGetInstance
    \/ CallBondSetup
    \/ CallBondTeardown
    \/ CallPairwisePairExists
    \/ CallBondPairExists

SpecPairExists == Init /\ [][NextPairExists]_vars

\* ------------------------------------------ construction of an RDF
\* The kinds of category an RDF may be constructed against; a Global is
\* passed as the object the driver built before.
CategoryKinds == {"Pairwise", "Bond", "Global"}

NewRDFOver ==
    /\ analysis = None
    /\ \E category \in CategoryKinds, period \in Periods, binsize \in BinSizes,
          cutoff \in OptCutoffs :
           /\ category = "Global" => glob # None
           /\ LET r == RDF_init(category, period, PathOf(OutPath), binsize,
                                cutoff, Classes)
              IN /\ SetClasses(r.st)
                 /\ analysis' = IF r.result.kind = "raise" THEN None
                                ELSE Some(r.self)
                 /\ ret' = [op |-> "RDF", category |-> category,
                            cutoff |-> cutoff, binsize |-> binsize,
                            established |-> Pairwise_instance,
                            result |-> r.result]
                 /\ firstCutoff' = IF firstCutoff = None /\ category = "Pairwise"
                                   THEN cutoff ELSE firstCutoff
    /\ UNCHANGED <<glob, u, files, history>>

NextConstruct ==
    \/ CallPairwiseGetInstance
    \/ NewGlobal
    \/ NewRDFOver
    \/ CallWrite

SpecConstruct == InitAnalysis /\ [][NextConstruct]_vars

\* ------------------------------------------------------------------------
\* Properties of the shared categories
\* ------------------------------------------------------------------------
\* The last call was Pairwise.get_instance with a cutoff, on an
\* established shared instance.
GetInstanceOnEstablished ==
    /\ ret.op = "Pairwise.get_instance"
    /\ Len(ret.args) > 0 /\ ret.args[1] # None
    /\ ret.before # None

Established == pairwise[Val(ret.before)].cutoff
Requested == Val(ret.args[1])

C2_SingleInstance ==
    /\ Len(pairwise) <= 1
    /\ (Pairwise_instance = None) <=> (firstCutoff = None)
    /\ Pairwise_instance # None =>
           pairwise[Val(Pairwise_instance)].cutoff = Val(firstCutoff)
    /\ (/\ ret.op = "Pairwise.get_instance"
        /\ ret.result.kind = "return"
        /\ ret.result.value # None) =>
           /\ ret.result.value = Some(1)
           /\ ret.result.value = Pairwise_instance

C2_Witness ==
    /\ GetInstanceOnEstablished
    /\ ret.result = Return(Some(1))
    /\ Requested # Val(firstCutoff)

\* The slice of atom i in a built neighbor structure, as a set.
Slice(self, i) ==
    LET a == SumTo(self.nlist_lengths, i)
    IN {self.nlist[k] : k \in (a + 1)..(a + self.nlist_lengths[i + 1])}

\* The last call was a setup that found the Bond category not ready, so
\* that it ran Bond._build_nlist.
BondBuildRan ==
    /\ ret.op = "setup" /\ ret.cls = "Bond"
    /\ ~ret.before.nlist_ready

\* C3 as stated: building the Bond category from any list of distinct
\* bonds completes within the allocated capacity and stores every bond in
\* the slices of both its ends; bonds [(0,1),(1,2)] on 3 particles give
\* nlist_lengths = [1,2,1] and the neighbor sets {1}, {0,2}, {1}.
C3_AsStated ==
    BondBuildRan =>
        /\ ret.result = Return(None)
        /\ bond[ret.id].nlist_ready
        /\ \A k \in 1..Len(u.bonds) :
               /\ u.bonds[k][2] \in Slice(bond[ret.id], u.bonds[k][1])
               /\ u.bonds[k][1] \in Slice(bond[ret.id], u.bonds[k][2])
        /\ (u.n = 3 /\ u.bonds = <<<<0, 1>>, <<1, 2>>>>) =>
               /\ bond[ret.id].nlist_lengths = <<1, 2, 1>>
               /\ Slice(bond[ret.id], 0) = {1}
               /\ Slice(bond[ret.id], 1) = {0, 2}
               /\ Slice(bond[ret.id], 2) = {1}

\* C4: whenever a Bond build has completed, sum(nlist_lengths) is
\* len(nlist), nlist_lengths has one entry per particle, and the structure
\* is symmetric: j is in the slice of i iff i is in the slice of j.
C4_BondStructure ==
    \A id \in 1..Len(bond) :
        bond[id].nlist_ready =>
            /\ SumTo(bond[id].nlist_lengths, Len(bond[id].nlist_lengths))
                   = Len(bond[id].nlist)
            /\ Len(bond[id].nlist_lengths) = u.n
            /\ \A i \in Atoms(u), j \in Atoms(u) :
                   i # j => (j \in Slice(bond[id], i) <=> i \in Slice(bond[id], j))

C4_Witness ==
    /\ BondBuildRan
    /\ ret.result = Return(None)
    /\ bond[ret.id].nlist_ready
    /\ Len(u.bonds) > 0
    /\ Len(bond[ret.id].nlist) = 2 * Len(u.bonds)

Category(cls, id) == IF cls = "Pairwise" THEN pairwise[id] ELSE bond[id]

\* C5 as stated: setup of a Pairwise or Bond category is idempotent: a
\* setup that finds the category not ready builds the structure and leaves
\* it ready; a setup that finds it ready leaves nlist and nlist_lengths
\* (the whole category) unchanged; teardown leaves it not ready, so that
\* the next setup builds again.
C5_AsStated ==
    /\ ret.op = "setup" =>
           /\ ret.result = Return(None)
           /\ Category(ret.cls, ret.id).nlist_ready
           /\ ret.before.nlist_ready => Category(ret.cls, ret.id) = ret.before
    /\ ret.op = "teardown" => ~Category(ret.cls, ret.id).nlist_ready

\* C6: neighbor access on a Pairwise or Bond category that is not ready
\* fails with the not-ready assertion and yields nothing; a category is
\* not ready when it is created and after every teardown.
C6_NotReady ==
    /\ (/\ ret.op \in {"generate_nlist", "generate_neighbor_vecs"}
        /\ ~ret.before.nlist_ready) =>
           ret.result = Raise("AssertionError")
    /\ ret.op = "teardown" => ~Category(ret.cls, ret.id).nlist_ready
    /\ \A id \in 1..Len(pairwise) :
           ~HasAttr(pairwise[id], "nlist") => ~pairwise[id].nlist_ready
    /\ \A id \in 1..Len(bond) :
           ~HasAttr(bond[id], "nlist") => ~bond[id].nlist_ready

\* Neighbor access refused between a teardown and the next setup: the
\* Pairwise structure had been built, and the category is not ready.
C6_Witness ==
    /\ ret.op = "generate_neighbor_vecs" /\ ret.cls = "Pairwise"
    /\ HasAttr(ret.before, "nlist") /\ Len(ret.before.nlist) > 0
    /\ ~ret.before.nlist_ready
    /\ ret.result = Raise("AssertionError")

\* ------------------------------------------------------------------------
\* Properties of the analyses
\* ------------------------------------------------------------------------
Self == Val(analysis)

C8_AsStated ==
    /\ (ret.op = "__getstate__" /\ ret.result.kind = "return") =>
           /\ HasAttr(ret.result.value, "outfile")
           /\ ret.result.value.outfile.type = "str"
    /\ ret.op = "restored.write" =>
           /\ ret.result = Return(None)
           /\ Len(files[OutPath]) >= Len(ret.content)

\* C9 as stated: RDF.write changes no attribute of the analysis but the
\* output handle, and a write call that follows another write call with
\* no do_update in between leaves the destination with the content it had.
C9_AsStated ==
    (ret.op = "write" /\ Self.cls = "RDF") =>
        /\ ret.kept
        /\ ret.clean => files[OutPath] = ret.content

CnLine == Format(Self.cn) \o <<"\n">>

BondJoins(type1, type2) ==
    \E k \in 1..Len(u.bonds) :
        LET a == u.bonds[k][1]
            b == u.bonds[k][2]
        IN \/ u.types[a + 1] = type1 /\ u.types[b + 1] = type2
           \/ u.types[b + 1] = type1 /\ u.types[a + 1] = type2

\* C16 as stated: Pairwise.pair_exists returns true for every pair of
\* types; Bond.pair_exists returns true iff some bond joins a particle
\* selected by type1 to one selected by type2, and leaves the category
\* ready (it builds the adjacency first when the category is not ready).
C16_AsStated ==
    /\ ret.op = "Pairwise.pair_exists" => ret.result = Return(TRUE)
    /\ ret.op = "Bond.pair_exists" =>
           /\ ret.result = Return(BondJoins(ret.type1, ret.type2))
           /\ bond[ret.id].nlist_ready

\* The last call was generate_neighbor_vecs on a ready category.
NeighborVecsOnReady ==
    ret.op = "generate_neighbor_vecs" /\ ret.before.nlist_ready

\* The contiguous slice of nlist that belongs to particle i.
SliceSeq(self, i) ==
    SubSeq(self.nlist, SumTo(self.nlist_lengths, i) + 1,
           SumTo(self.nlist_lengths, i) + self.nlist_lengths[i + 1])

\* The entries of that slice a mask lets through, in slice order.
PassingMask(self, i, mask) ==
    SelectSeq(SliceSeq(self, i), LAMBDA j : mask = None \/ Val(mask)[j + 1])

\* C18: on a ready Pairwise or Bond category the stream of particle i
\* yields, in slice order, one triple for each index of the slice of i
\* that the mask lets through (each index when there is no mask), with
\* that index as neighbor index; the result depends on the arguments and
\* the structure alone, and the call leaves the category as it was.
C18_NeighborStream ==
    NeighborVecsOnReady =>
        LET kept == PassingMask(ret.before, ret.i, ret.mask)
        IN /\ ret.result.kind = "return"
           /\ Len(ret.result.value) = Len(kept)
           /\ \A k \in 1..Len(kept) : ret.result.value[k][3] = kept[k]
           /\ ret.result = generate_neighbor_vecs(Category(ret.cls, ret.id),
                                                  ret.i, u, ret.mask)
           /\ Category(ret.cls, ret.id) = ret.before

\* A masked stream of a particle whose slice does not start the list: one
\* of its two neighbors is let through.
C18_Witness ==
    /\ NeighborVecsOnReady /\ ret.mask # None /\ ret.i > 0
    /\ Len(SliceSeq(ret.before, ret.i)) = 2
    /\ Len(ret.result.value) = 1

\* The text the last write put into the destination: what lies before
\* the position of the handle.
Emitted == SubSeq(files[OutPath], 1, Self.outfile.pos)

SelfCategory == Deref(Classes, Self.category)
NeighborsOf(i) == generate_nlist(SelfCategory, i).value
Distance(i, j) ==
    norm3(min_img_vec(u.positions[j + 1], u.positions[i + 1],
                      u.dimensions, u.periodic))

InGroup1(i) == Val(Self.mask1)[i + 1]
InGroup2(i) == Val(Self.mask2)[i + 1]

\* The particles in group 1 or group 2, and whether neighbor j passes the
\* mask complementary to the group particle i was taken from.
Contributing == {i \in Atoms(u) : InGroup1(i) \/ InGroup2(i)}
Complementary(i, j) == IF InGroup1(i) THEN InGroup2(j) ELSE InGroup1(j)

\* The neighbor entries (particle i, place k of its list) that are counted.
CountedPairs ==
    {p \in Contributing \X (1..Len(SelfCategory.nlist)) :
        /\ p[2] <= Len(NeighborsOf(p[1]))
        /\ LET j == NeighborsOf(p[1])[p[2]]
           IN p[1] < j /\ Complementary(p[1], j) /\ Distance(p[1], j) < Self.r0}

\* C11: after a CoordNumber.do_update that returned (at least one particle
\* contributes), cn is the float 2 * (counted pairs) / (particles in group
\* 1 or group 2), computed from the current frame, masks and neighbor
\* lists alone, whatever earlier sampled frames left in cn.
C11_CoordNumber ==
    (ret.op = "update" /\ ret.ran /\ ret.result.kind = "return"
        /\ Self.cls = "CoordNumber") =>
        /\ Contributing # {}
        /\ Self.cn.type = "float"
        /\ Self.cn.num * Cardinality(Contributing)
               = 2 * Cardinality(CountedPairs) * Self.cn.den

\* A second sampled frame, with groups given as state masks, in which one
\* pair is counted among two contributing particles.
C11_Witness ==
    /\ ret.op = "update" /\ ret.ran /\ ret.result.kind = "return"
    /\ Self.cls = "CoordNumber" /\ ret.k >= 1
    /\ Self.mask1 # Self.mask2
    /\ Cardinality(Contributing) = 2 /\ Cardinality(CountedPairs) = 1
    /\ Self.cn = PyFloat(1, 1)

\* The type name of an argument of valid_pair.
TypeNameOf(atom) == IF atom.cls = "str" THEN atom.value ELSE atom.type

\* C13 as stated: valid_pair returns true for every pair of types when no
\* selectors are configured; with both selectors configured it returns
\* true exactly when sel1 matches atom1 and sel2 matches atom2, or sel2
\* matches atom1 and sel1 matches atom2; and valid_pair(a, b) equals
\* valid_pair(b, a).
C13_AsStated ==
    ret.op = "valid_pair" =>
        LET t1 == TypeNameOf(ret.atom1)
            t2 == TypeNameOf(ret.atom2)
        IN /\ (Self.sel1 = None /\ Self.sel2 = None) => ret.result = Return(TRUE)
           /\ (Self.sel1 # None /\ Self.sel2 # None) =>
                  ret.result = Return(
                      \/ re_match(Val(Self.sel1), t1) /\ re_match(Val(Self.sel2), t2)
                      \/ re_match(Val(Self.sel2), t1) /\ re_match(Val(Self.sel1), t2))
           /\ ret.result = ret.swapped

\* The particles whose type is the selection sel, as a mask.
Matching(sel) == [k \in 1..u.n |-> u.types[k] = Val(sel)]
AllTrue == [k \in 1..u.n |-> TRUE]

\* C14: a setup_hook that finds no mask1 sets it to the particles
\* matching sel1 (all true when sel1 is absent), one that finds no mask2
\* sets it to the particles matching sel2 (mask1 itself when sel2 is
\* absent); a mask that is already set, by an earlier setup_hook or by
\* specialize_states, is left as it is, whatever the selections are now.
C14_Masks ==
    ret.op = "setup_hook" =>
        /\ ret.mask1 = None =>
               Self.mask1 = IF Self.sel1 # None THEN Some(Matching(Self.sel1))
                            ELSE Some(AllTrue)
        /\ ret.mask2 = None =>
               Self.mask2 = IF Self.sel2 # None THEN Some(Matching(Self.sel2))
                            ELSE Self.mask1
        /\ ret.mask1 # None => Self.mask1 = ret.mask1
        /\ ret.mask2 # None => Self.mask2 = ret.mask2

\* A setup_hook after masks were built without selections and the
\* analysis was then specialized to types: the masks stay all true.
C14_Witness ==
    /\ ret.op = "setup_hook"
    /\ ret.mask1 = Some(AllTrue) /\ ret.mask2 = Some(AllTrue)
    /\ Self.sel1 = Some("A") /\ Self.sel2 = Some("B")
    /\ Self.mask1 = Some(AllTrue) /\ Self.mask2 = Some(AllTrue)

\* The unordered pairs {i, j}, written with i < j, such that j is in the
\* neighbor list of i and one of the two is in group 1 while the other is
\* in group 2.
CrossPairs ==
    {p \in Atoms(u) \X Atoms(u) :
        /\ p[1] < p[2]
        /\ \E k \in 1..Len(NeighborsOf(p[1])) : NeighborsOf(p[1])[k] = p[2]
        /\ \/ InGroup1(p[1]) /\ InGroup2(p[2])
           \/ InGroup2(p[1]) /\ InGroup1(p[2])}

\* The cross pairs whose distance falls into bin b (counted from 0).
CrossPairsInBin(b) ==
    {p \in CrossPairs : Distance(p[1], p[2]) \div Self.binsize = b}

\* The last call was an update of an RDF that ran do_update to its end.
RDFSampled ==
    /\ ret.op = "update" /\ ret.ran /\ ret.result.kind = "return"
    /\ Self.cls = "RDF"

\* C17 as stated: one RDF.do_update adds to every bin exactly the number
\* of cross pairs at that distance: each is counted once, also when a
\* particle belongs to both groups, and nothing else is counted.
C17_AsStated ==
    RDFSampled =>
        IF SelfCategory.nlist_ready
        THEN \A b \in 1..Len(Self.hist) :
                 Self.hist[b] = ret.hist[b] + Cardinality(CrossPairsInBin(b - 1))
        ELSE Self.hist = ret.hist

\* ------------------------------------------------------------------------
\* Properties of a Global category
\* ------------------------------------------------------------------------
\* C12: a Global category is ready from construction on, whatever setup
\* and teardown calls were made; the neighbor-vector stream of a particle
\* yields exactly one triple, with neighbor index -1; pair_exists returns
\* false for every pair of types.
C12_GlobalReady ==
    /\ glob # None => Val(glob).nlist_ready
    /\ ret.op = "Global.generate_neighbor_vecs" =>
           /\ ret.result.kind = "return"
           /\ Len(ret.result.value) = 1
           /\ ret.result.value[1][3] = -1
    /\ ret.op = "Global.pair_exists" => ret.result = Return(FALSE)

\* A teardown has just been called on a Global category.
C12_Witness ==
    /\ glob # None /\ ret.op = "Global._teardown"
    /\ Val(glob).nlist_ready
    /\ u.n > 0

\* ------------------------------------------------------------------------
\* Properties of the construction of an RDF
\* ------------------------------------------------------------------------
\* The last call constructed an RDF against a category without a cutoff:
\* Bond, Global, or Pairwise asked for without a cutoff while no shared
\* instance existed.
NoCutoffExposed ==
    /\ ret.op = "RDF"
    /\ \/ ret.category \in {"Bond", "Global"}
       \/ ret.category = "Pairwise" /\ ret.cutoff = None /\ ret.established = None

\* C15: such a construction fails with ValueError and leaves no analysis,
\* and every RDF object that exists holds a cutoff.
C15_MissingCutoff ==
    /\ NoCutoffExposed => (ret.result = Raise("ValueError") /\ analysis = None)
    /\ (analysis # None /\ Self.cls = "RDF") =>
           (HasAttr(Self, "cutoff") /\ Self.cutoff \in Cutoffs)

\* An RDF over a Global object was refused although a cutoff was passed.
C15_Witness ==
    /\ NoCutoffExposed /\ ret.category = "Global" /\ ret.cutoff # None
    /\ ret.result = Raise("ValueError") /\ analysis = None

\* The number of binsize-wide bins that cover [0, cutoff).
BinsCovering(cutoff, binsize) == (cutoff + binsize - 1) \div binsize

\* C20 as stated: every constructed RDF has as many histogram bins as
\* there are binsize-wide bins in [0, self.cutoff), also when the shared
\* Pairwise instance was established before with another cutoff.
C20_AsStated ==
    (analysis # None /\ Self.cls = "RDF") =>
        Len(Self.hist) = BinsCovering(Self.cutoff, Self.binsize)
====
